---- MODULE Spec2Model ----
(***************************************************************************)
(* Model of uclient-example.c: the download client's event handlers        *)
(* (example_header_done, example_read_data, example_eof,                   *)
(* handle_uclient_error), the output file resolver open_output_file, and   *)
(* main's start-up and exit.  The uclient library, uloop and the operating *)
(* system are the environment: the library delivers callbacks in any       *)
(* order, the operating system keeps a descriptor table and a set of       *)
(* existing files.                                                         *)
(*                                                                         *)
(* Strings of the program (URL paths, file names) are sequences of         *)
(* one-character strings, so that open_output_file's character loops are   *)
(* modelled as written.  A NULL output_file is the empty sequence.         *)
(***************************************************************************)
EXTENDS Integers, Sequences, FiniteSets, TLC

VARIABLES
    quiet,        \* static int quiet                       (-q)
    verify,       \* static bool verify                     (--no-check-certificate clears it)
    output_file,  \* static const char *output_file         (-O), NULL is << >>
    output_fd,    \* static int output_fd
    error_ret,    \* static int error_ret
    retries,      \* static int retries of example_header_done
    status_code,  \* cl->status_code of the response delivered last
    location,     \* cl->url->location, the path of the URL being requested
    redirect_to,  \* target of the response's Location header, << >> if none/invalid
    avail,        \* body bytes the library holds for uclient_read
    sent,         \* how many bytes of Body the library has received so far
    phase,        \* the library's connection state
    connect_failed, \* uclient_connect() could not connect
    requests,     \* number of requests issued (uclient_request and re-requests)
    cancelled,    \* uloop_end() has been called
    ends,         \* number of calls of uloop_end()
    exists,       \* file names that exist in the working directory
    unwritable,   \* file names open() refuses (permissions, a directory, ...)
    fdtab,        \* the process's open descriptors: descriptor -> what it is open on
    out,          \* bytes written so far, per target (file name or standard output)
    space,        \* bytes the sinks' device still has room for
    opens,        \* number of open() calls made by the program
    closes,       \* number of close() calls made by the program
    lastOpen,     \* the last open() call: name, O_EXCL, result
    msgs,         \* diagnostics the last handler printed on stderr
    twin,         \* the same session run with the quiet flag flipped
    ev,           \* the callback delivered last
    post,         \* callbacks delivered since uloop_end() was first called
    pc,           \* where main is: "start", "run" (in uloop_run), "exit"
    exit_code     \* main's return value, -1 before it returns

vars == << quiet, verify, output_file, output_fd, error_ret, retries, status_code,
           location, redirect_to, avail, sent, phase, connect_failed, requests,
           cancelled, ends, exists, unwritable, fdtab, out, space, opens, closes, lastOpen, msgs, twin, ev, post,
           pc, exit_code >>

----------------------------------------------------------------------------
(* Bounds of the model *)

\* calls of open_output_file when it is exercised on its own
MaxOpens == 2
\* callbacks delivered after uloop_end() and before uloop_run() returns
MaxPost == 1
\* length of the response body
BodyLen == 2
\* size of example_read_data's buffer (256 in the source, scaled down)
BufSize == 1

(* Program constants *)

RetryLimit == 10
STDOUT_FILENO == 1
ErrOpen == 3
ErrStatus == 8
ErrConnect == 4
ErrCert == 5
ErrOther == 1

----------------------------------------------------------------------------
(* Strings *)

Str_dash == << "-" >>
Str_index_html == << "i","n","d","e","x",".","h","t","m","l" >>
Str_result_bin == << "r","e","s","u","l","t",".","b","i","n" >>
Str_report_csv == << "r","e","p","o","r","t",".","c","s","v" >>
Str_b == << "b" >>

Path_report == << "/","a","/","b","/" >> \o Str_report_csv
Path_dir    == << "/","a","/","b","/" >>
Path_b      == << "/","a","/","b" >>
Path_root   == << "/" >>

\* URL paths the library hands to the program
Paths == { Path_report, Path_dir, Path_b, Path_root }

\* what a descriptor can be open on besides a named file
StdinT  == << "<stdin>" >>
StdoutT == << "<stdout>" >>
StderrT == << "<stderr>" >>

NullStr == << >>

\* the response body, byte by byte
Body == [ i \in 1..BodyLen |-> i ]

----------------------------------------------------------------------------
(* The session as one value: the program's statics, the library's client   *)
(* object and the operating system's tables.  The handlers below are       *)
(* functions from this value to the value after the handler has returned.  *)

State ==
    [ quiet |-> quiet, verify |-> verify, output_file |-> output_file,
      output_fd |-> output_fd, error_ret |-> error_ret, retries |-> retries,
      status_code |-> status_code, location |-> location,
      redirect_to |-> redirect_to, avail |-> avail, sent |-> sent,
      phase |-> phase, connect_failed |-> connect_failed, requests |-> requests, cancelled |-> cancelled,
      ends |-> ends, exists |-> exists, unwritable |-> unwritable,
      fdtab |-> fdtab, out |-> out, space |-> space, opens |-> opens, closes |-> closes,
      lastOpen |-> lastOpen,
      msgs |-> msgs ]

Becomes(t) ==
    /\ quiet' = t.quiet               /\ verify' = t.verify
    /\ output_file' = t.output_file   /\ output_fd' = t.output_fd
    /\ error_ret' = t.error_ret       /\ retries' = t.retries
    /\ status_code' = t.status_code   /\ location' = t.location
    /\ redirect_to' = t.redirect_to   /\ avail' = t.avail
    /\ sent' = t.sent                 /\ phase' = t.phase
    /\ requests' = t.requests         /\ cancelled' = t.cancelled
    /\ ends' = t.ends                 /\ exists' = t.exists
    /\ unwritable' = t.unwritable     /\ fdtab' = t.fdtab
    /\ out' = t.out                   /\ opens' = t.opens
    /\ lastOpen' = t.lastOpen         /\ msgs' = t.msgs
    /\ connect_failed' = t.connect_failed /\ closes' = t.closes
    /\ space' = t.space

----------------------------------------------------------------------------
(* C library *)

RECURSIVE strcspn_from(_, _, _)
strcspn_from(str, reject, i) ==
    IF i > Len(str) \/ str[i] \in reject THEN i - 1
    ELSE strcspn_from(str, reject, i + 1)

\* length of the longest prefix of str with no character of reject
strcspn(str, reject) == strcspn_from(str, reject, 1)

\* the lowest descriptor not in use
LowestFd(tab) ==
    CHOOSE fd \in 0..Cardinality(DOMAIN tab) :
        /\ fd \notin DOMAIN tab
        /\ \A g \in 0..(fd - 1) : g \in DOMAIN tab

\* open(name, O_WRONLY [| O_CREAT] [| O_EXCL], 0644): the session after the
\* call and the call's return value
OsOpen(s, name, creat, excl) ==
    LET fails == \/ name \in s.unwritable
                 \/ creat /\ excl /\ name \in s.exists
                 \/ ~creat /\ name \notin s.exists
        fd    == LowestFd(s.fdtab)
        ret   == IF fails THEN -1 ELSE fd
        rec   == [ name |-> name, creat |-> creat, excl |-> excl, ret |-> ret ]
    IN  IF fails
        THEN [ st  |-> [ s EXCEPT !.opens = @ + 1, !.lastOpen = rec ],
               ret |-> ret ]
        ELSE [ st  |-> [ s EXCEPT !.opens = @ + 1, !.lastOpen = rec,
                                  !.exists = IF creat THEN @ \cup {name} ELSE @,
                                  !.fdtab = [ d \in DOMAIN @ \cup {fd} |->
                                                IF d = fd THEN name ELSE @[d] ] ],
               ret |-> ret ]

\* close(fd)
OsClose(s, fd) ==
    IF fd \in DOMAIN s.fdtab
    THEN [ s EXCEPT !.fdtab = [ d \in DOMAIN @ \ {fd} |-> @[d] ],
                    !.closes = @ + 1 ]
    ELSE [ s EXCEPT !.closes = @ + 1 ]

\* write(fd, buf, len): EBADF if fd is not open; otherwise as many of the
\* bytes as there is room for reach what fd is open on (a short count, or
\* ENOSPC when there is room for none)
OsWrite(s, fd, bytes) ==
    IF fd \in DOMAIN s.fdtab
    THEN LET n == IF Len(bytes) < s.space THEN Len(bytes) ELSE s.space
         IN  [ s EXCEPT !.out[s.fdtab[fd]] = @ \o SubSeq(bytes, 1, n),
                        !.space = @ - n ]
    ELSE s

----------------------------------------------------------------------------
(* The uclient library and uloop, as far as the program uses them *)

RedirectStatuses == { 301, 302, 307 }

\* uclient_http_redirect(cl): when the response is a redirect with a usable
\* Location target, switches the client to the target, issues the request
\* again and returns true; returns false and does nothing otherwise
uclient_http_redirect(s) ==
    IF s.status_code \in RedirectStatuses /\ s.redirect_to # NullStr
    THEN [ st  |-> [ s EXCEPT !.location = s.redirect_to,
                              !.requests = @ + 1,
                              !.phase = "awaiting" ],
           ret |-> TRUE ]
    ELSE [ st |-> s, ret |-> FALSE ]

\* uclient_disconnect(cl)
uclient_disconnect(s) == [ s EXCEPT !.phase = "disconnected" ]

\* uloop_end()
uloop_end(s) == [ s EXCEPT !.cancelled = TRUE, !.ends = @ + 1 ]

\* number of bytes one uclient_read(cl, buf, size) call returns
uclient_read_len(s, size) == IF Len(s.avail) < size THEN Len(s.avail) ELSE size

----------------------------------------------------------------------------
(* open_output_file *)

\* while (len > 0 && path[len - 1] == '/') len--;
RECURSIVE strip_trailing_slashes(_, _)
strip_trailing_slashes(path, len) ==
    IF len > 0 /\ path[len] = "/" THEN strip_trailing_slashes(path, len - 1)
    ELSE len

\* for (str = path + len - 1; str >= path; str--) if (*str == '/') break;
\* the result is str - path after the loop, so -1 when no slash was found
RECURSIVE scan_back_to_slash(_, _)
scan_back_to_slash(path, off) ==
    IF off >= 0 /\ path[off + 1] # "/" THEN scan_back_to_slash(path, off - 1)
    ELSE off

derived_filename_no_strip(path) ==
    LET len0  == strcspn(path, { ";", "&" })
        start == scan_back_to_slash(path, len0 - 1) + 1
        len   == len0 - start
    IN  IF len > 0 THEN SubSeq(path, start + 1, start + len)
        ELSE Str_index_html

\* the file name open_output_file derives from the URL path
derived_filename(path) ==
    LET len0  == strcspn(path, { ";", "&" })
        len1  == strip_trailing_slashes(path, len0)
        start == scan_back_to_slash(path, len1 - 1) + 1
        len   == len1 - start
    IN  IF len > 0 THEN SubSeq(path, start + 1, start + len)
        ELSE Str_index_html

excl_flag_never(create) == FALSE

\* O_EXCL is added for a derived name when the file is to be created
excl_flag(create) == create

is_stdout_never(name) == FALSE

\* !strcmp(output_file, "-")
is_stdout(name) == name = Str_dash

\* the session after the call and the descriptor returned
open_output_file(s, path, create) ==
    IF s.output_file # NullStr
    THEN IF is_stdout(s.output_file)
         THEN [ st |-> s, ret |-> STDOUT_FILENO ]
         ELSE OsOpen(s, s.output_file, create, FALSE)
    ELSE OsOpen(s, derived_filename(path), create, excl_flag(create))

----------------------------------------------------------------------------
(* The callbacks *)

request_done_no_close(s) == uloop_end(uclient_disconnect(s))

request_done(s) ==
    LET s1 == IF s.output_fd >= 0
              THEN [ OsClose(s, s.output_fd) EXCEPT !.output_fd = -1 ]
              ELSE s
    IN  uloop_end(uclient_disconnect(s1))

may_follow_off_by_one(r) == r <= RetryLimit

\* retries < 10
may_follow(r) == r < RetryLimit

is_success_status_2xx(code) == code \in 200..299

\* case 204: case 200:
is_success_status(code) == code \in { 200, 204 }

header_done_open_failed_quiet(s) ==
    request_done([ s EXCEPT !.msgs = IF ~s.quiet THEN @ \cup {"Cannot open output file"} ELSE @,
                            !.error_ret = IF ~s.quiet THEN ErrOpen ELSE @ ])

header_done_open_failed_no_done(s) ==
    [ s EXCEPT !.msgs = IF ~s.quiet THEN @ \cup {"Cannot open output file"} ELSE @,
               !.error_ret = ErrOpen ]

\* the branch taken when open_output_file returned a negative descriptor
header_done_open_failed(s) ==
    request_done([ s EXCEPT !.msgs = IF ~s.quiet THEN @ \cup {"Cannot open output file"} ELSE @,
                            !.error_ret = ErrOpen ])

\* the handler from "retries = 0" on: the response is final
header_done_final(s) ==
    LET s1 == [ s EXCEPT !.retries = 0,
                         !.msgs = IF ~s.quiet THEN @ \cup {"Headers"} ELSE @ ]
    IN  IF is_success_status(s1.status_code)
        THEN LET o  == open_output_file(s1, s1.location, TRUE)
                 s2 == [ o.st EXCEPT !.output_fd = o.ret ]
             IN  IF s2.output_fd < 0 THEN header_done_open_failed(s2) ELSE s2
        ELSE [ request_done(s1) EXCEPT !.error_ret = ErrStatus ]

header_done_redirected_falls_through(s) ==
    header_done_final([ s EXCEPT !.retries = @ + 1,
                                 !.msgs = IF ~s.quiet THEN @ \cup {"Redirected"} ELSE @ ])

\* the body of "if (retries < 10 && uclient_http_redirect(cl))"
header_done_redirected(s) ==
    [ s EXCEPT !.retries = @ + 1,
               !.msgs = IF ~s.quiet THEN @ \cup {"Redirected"} ELSE @ ]

example_header_done(s0) ==
    LET s == [ s0 EXCEPT !.msgs = {} ]
    IN  IF may_follow(s.retries)
        THEN LET r == uclient_http_redirect(s)
             IN  IF r.ret THEN header_done_redirected(r.st)
                 ELSE header_done_final(r.st)
        ELSE header_done_final(s)

RECURSIVE read_loop(_)
read_loop(s) ==
    LET len == uclient_read_len(s, BufSize)
    IN  IF len = 0 THEN s
        ELSE read_loop(OsWrite([ s EXCEPT !.avail = SubSeq(@, len + 1, Len(@)) ],
                               s.output_fd, SubSeq(s.avail, 1, len)))

example_read_data_unguarded(s0) == read_loop([ s0 EXCEPT !.msgs = {} ])

example_read_data(s0) ==
    LET s == [ s0 EXCEPT !.msgs = {} ]
    IN  IF s.output_fd < 0 THEN s ELSE read_loop(s)

example_eof(s0) == request_done([ s0 EXCEPT !.msgs = {} ])

ErrorKinds == { "UNKNOWN", "CONNECT", "SSL_INVALID_CERT", "SSL_CN_MISMATCH" }

error_code_all_generic(code) ==
    IF code = "CONNECT" THEN ErrConnect ELSE ErrOther

error_code_no_connect_case(code) ==
    CASE code = "SSL_INVALID_CERT" -> ErrCert
      [] code = "SSL_CN_MISMATCH"  -> ErrCert
      [] OTHER                     -> ErrOther

\* the value the switch assigns to error_ret
error_code(code) ==
    CASE code = "CONNECT"          -> ErrConnect
      [] code = "SSL_INVALID_CERT" -> ErrCert
      [] code = "SSL_CN_MISMATCH"  -> ErrCert
      [] OTHER                     -> ErrOther

error_ignored_any_kind(code, v) == ~v

\* the value the switch leaves in ignore
error_ignored(code, v) ==
    CASE code = "SSL_INVALID_CERT" -> ~v
      [] code = "SSL_CN_MISMATCH"  -> ~v
      [] OTHER                     -> FALSE

handle_uclient_error_keeps_code(s0, code) ==
    LET ignore == error_ignored(code, s0.verify)
        s == [ s0 EXCEPT !.error_ret = error_code(code),
                         !.msgs = IF ~s0.quiet
                                  THEN { IF ignore THEN "Connection error (ignored)"
                                                   ELSE "Connection error" }
                                  ELSE {} ]
    IN  IF ignore THEN s ELSE request_done(s)

handle_uclient_error(s0, code) ==
    LET ignore == error_ignored(code, s0.verify)
        s == [ s0 EXCEPT !.error_ret = error_code(code),
                         !.msgs = IF ~s0.quiet
                                  THEN { IF ignore THEN "Connection error (ignored)"
                                                   ELSE "Connection error" }
                                  ELSE {} ]
    IN  IF ignore THEN [ s EXCEPT !.error_ret = 0 ] ELSE request_done(s)

\* uclient_connect(cl): ok tells whether the connection could be set up; a
\* failure is kept in the client and reported through the error callback
uclient_connect(s, ok) ==
    [ s EXCEPT !.connect_failed = ~ok,
               !.phase = IF ok THEN "connected" ELSE "failed" ]

\* uclient_request(cl): sends the request on a connected client
uclient_request(s) ==
    IF s.phase = "connected"
    THEN [ s EXCEPT !.requests = @ + 1, !.phase = "awaiting" ]
    ELSE s

\* msg_connecting(cl)
msg_connecting(s) ==
    [ s EXCEPT !.msgs = IF s.quiet THEN {} ELSE {"Connecting"} ]

\* uclient_connect's return value is not looked at: the notice is printed and
\* the request issued in either case
init_request(s, ok) == uclient_request(msg_connecting(uclient_connect(s, ok)))

----------------------------------------------------------------------------
(* The environment: what main parsed from the command line, what the       *)
(* working directory holds, and the callbacks the library delivers.        *)

\* status codes the server answers with
Statuses == { 200, 201, 204, 302, 404 }

\* where the server redirects a request for path to
RedirectOf(path) ==
    CASE path = Path_root   -> Path_report
      [] path = Path_report -> Path_dir
      [] path = Path_dir    -> Path_b
      [] OTHER              -> Path_root

\* Location targets a response to a request for path, with the given status,
\* can carry: none, or the server's redirect
Targets(status, path) ==
    IF status \in RedirectStatuses THEN { RedirectOf(path), NullStr } ELSE { NullStr }

\* values of -O: not given, "-", a file name
OutputFiles == { NullStr, Str_dash, Str_result_bin }

FileNames == { derived_filename(p) : p \in Paths } \cup { Str_result_bin }

Sinks == { StdinT, StdoutT, StderrT } \cup FileNames

\* the working directory at start-up
Filesystems ==
    { [ exists |-> {}, unwritable |-> {} ],
      [ exists |-> { Str_b, Str_result_bin }, unwritable |-> { Str_report_csv } ] }

NoOpen == [ name |-> NullStr, creat |-> FALSE, excl |-> FALSE, ret |-> -1 ]

NoEvent == [ kind |-> "none", code |-> "none" ]

\* the state when main has parsed its options, with main at p
InitAt(p) ==
    /\ quiet \in BOOLEAN
    /\ verify \in BOOLEAN
    /\ output_file \in OutputFiles
    /\ output_fd = -1
    /\ error_ret = 0
    /\ retries = 0
    /\ status_code = 0
    /\ location = Path_root
    /\ redirect_to = NullStr
    /\ avail = << >>
    /\ sent = 0
    /\ phase = "idle"
    /\ connect_failed = FALSE
    /\ requests = 0
    /\ cancelled = FALSE
    /\ ends = 0
    /\ \E fs \in Filesystems : exists = fs.exists /\ unwritable = fs.unwritable
    /\ fdtab = (0 :> StdinT) @@ (1 :> StdoutT) @@ (2 :> StderrT)
    /\ out = [ t \in Sinks |-> << >> ]
    /\ space \in { BodyLen - 1, BodyLen }
    /\ opens = 0
    /\ closes = 0
    /\ lastOpen = NoOpen
    /\ msgs = {}
    /\ twin = [ State EXCEPT !.quiet = ~quiet ]
    /\ ev = NoEvent
    /\ post = 0
    /\ pc = p
    /\ exit_code = -1

\* main is about to call init_request
Init == InitAt("start")

\* uloop keeps dispatching: before uloop_end(), or for the few callbacks the
\* library still makes after it
Dispatching ==
    /\ pc = "run"
    /\ cancelled => post < MaxPost

\* callbacks of a connection: a client that could not connect has none, it
\* only reports the connection failure
Connected == ~connect_failed

Delivered(kind, code) ==
    /\ ev' = [ kind |-> kind, code |-> code ]
    /\ post' = IF cancelled THEN post + 1 ELSE post
    /\ UNCHANGED << pc, exit_code >>

\* main: init_request(cl); uloop_run();
Start(ok) ==
    /\ pc = "start"
    /\ \E t \in { init_request(State, ok) } : Becomes(t)
    /\ \E t \in { init_request(twin, ok) } : twin' = t
    /\ pc' = "run"
    /\ UNCHANGED << ev, post, exit_code >>

\* the library has parsed the headers of the response to the outstanding
\* request: header_done is called once per response
receive_headers(s, status, target) ==
    [ s EXCEPT !.status_code = status,
               !.redirect_to = target,
               !.phase = "body" ]

HeaderDone(status, target) ==
    /\ Dispatching
    /\ Connected
    /\ phase = "awaiting"
    /\ \E t \in { example_header_done(receive_headers(State, status, target)) } : Becomes(t)
    /\ \E t \in { example_header_done(receive_headers(twin, status, target)) } : twin' = t
    /\ Delivered("header", "none")

\* k more bytes of the body have arrived
receive_data(s, k) ==
    [ s EXCEPT !.avail = @ \o SubSeq(Body, s.sent + 1, s.sent + k),
               !.sent = @ + k ]

DataRead(k) ==
    /\ Dispatching
    /\ Connected
    /\ \E t \in { example_read_data(receive_data(State, k)) } : Becomes(t)
    /\ \E t \in { example_read_data(receive_data(twin, k)) } : twin' = t
    /\ Delivered("data", "none")

DataEof ==
    /\ Dispatching
    /\ Connected
    /\ \E t \in { example_eof(State) } : Becomes(t)
    /\ \E t \in { example_eof(twin) } : twin' = t
    /\ Delivered("eof", "none")

Error(code) ==
    /\ Dispatching
    /\ connect_failed => code = "CONNECT"
    /\ \E t \in { handle_uclient_error(State, code) } : Becomes(t)
    /\ \E t \in { handle_uclient_error(twin, code) } : twin' = t
    /\ Delivered("error", code)

\* uloop_run() returns; main returns error_ret
Exit ==
    /\ pc = "run"
    /\ cancelled
    /\ pc' = "exit"
    /\ exit_code' = error_ret
    /\ UNCHANGED << quiet, verify, output_file, output_fd, error_ret, retries,
                    status_code, location, redirect_to, avail, sent, phase,
                    connect_failed, requests, cancelled, ends, exists, unwritable, fdtab, out,
                    space, opens, closes, lastOpen, msgs, twin, ev, post >>

Next ==
    \/ \E ok \in BOOLEAN : Start(ok)
    \/ \E status \in Statuses : \E target \in Targets(status, location) : HeaderDone(status, target)
    \/ \E k \in 0..(BodyLen - sent) : DataRead(k)
    \/ DataEof
    \/ \E code \in ErrorKinds : Error(code)
    \/ Exit

Spec == Init /\ [][Next]_vars

----------------------------------------------------------------------------
(* A server that redirects the first RetryLimit requests and answers the   *)
(* next one with anything.  The library calls header_done for every         *)
(* response it receives, hence the fairness.                                *)

RedirectServerNext ==
    \/ Start(TRUE)
    \/ \E status \in Statuses : \E target \in Targets(status, location) :
          /\ requests <= RetryLimit => (status \in RedirectStatuses /\ target # NullStr)
          /\ HeaderDone(status, target)

SpecRedirectServer ==
    Init /\ [][RedirectServerNext]_vars /\ WF_vars(RedirectServerNext)

----------------------------------------------------------------------------
(* open_output_file on its own: called for any path, up to MaxOpens times   *)
(* in one process, the result kept in output_fd as example_header_done      *)
(* does.                                                                    *)

InitOpen == InitAt("resolve")

resolve(s, path) ==
    LET o == open_output_file([ s EXCEPT !.location = path ], path, TRUE)
    IN  [ o.st EXCEPT !.output_fd = o.ret ]

Resolve(path) ==
    /\ pc = "resolve"
    /\ opens < MaxOpens
    /\ \E t \in { resolve(State, path) } : Becomes(t)
    /\ \E t \in { resolve(twin, path) } : twin' = t
    /\ ev' = [ kind |-> "resolve", code |-> "none" ]
    /\ UNCHANGED << post, pc, exit_code >>

OpenNext == \E path \in Paths : Resolve(path)

SpecOpen == InitOpen /\ [][OpenNext]_vars

----------------------------------------------------------------------------
(* Vocabulary of the properties *)

\* a step in which uloop dispatched the callback of the given kind
Handled(kind) == pc = "run" /\ pc' = "run" /\ ev'.kind = kind

\* the response delivered last is a redirect with a usable target
RedirectResponse == status_code \in RedirectStatuses /\ redirect_to # NullStr

CertKinds == { "SSL_INVALID_CERT", "SSL_CN_MISMATCH" }

NothingWritten == \A t \in DOMAIN out : out[t] = << >>

\* what a session leaves behind, diagnostics aside
Outcome(s) == [ s EXCEPT !.quiet = FALSE, !.msgs = {} ]

----------------------------------------------------------------------------
(* C1: a header-received event for a redirect with a valid target, with the *)
(* hop counter below 10, increments the counter by exactly one, re-issues   *)
(* the request to the target, opens no sink, does not terminate the session *)
(* and leaves the exit status alone.                                        *)
C1_RedirectFollowed ==
    [][ (Handled("header") /\ RedirectResponse' /\ retries < RetryLimit) =>
          /\ retries' = retries + 1
          /\ requests' = requests + 1
          /\ location' = redirect_to'
          /\ phase' = "awaiting"
          /\ opens' = opens /\ output_fd' = output_fd /\ fdtab' = fdtab
          /\ exists' = exists /\ out' = out
          /\ ~cancelled' /\ ends' = ends
          /\ error_ret' = error_ret ]_vars

\* the tenth redirect has just been followed
C1_Witness ==
    /\ ev.kind = "header"
    /\ retries = RetryLimit
    /\ requests = RetryLimit + 1
    /\ phase = "awaiting"
    /\ location = redirect_to
    /\ output_fd = -1 /\ opens = 0 /\ ~cancelled /\ error_ret = 0

(* C2: once 10 redirects have been followed, the next header-received event *)
(* is final whatever its status: no request is issued for it, and if it is  *)
(* not a 200/204 the session terminates; a server that keeps redirecting    *)
(* gets exactly 11 requests (10 followed redirects) and then the session    *)
(* reaches its terminal state.                                              *)
C2_BoundFinal ==
    /\ [](requests <= RetryLimit + 1)
    /\ [][ (Handled("header") /\ retries = RetryLimit) =>
             /\ requests' = requests
             /\ location' = location
             /\ phase' # "awaiting"
             /\ (status_code' \notin { 200, 204 } =>
                    cancelled' /\ phase' = "disconnected" /\ error_ret' = ErrStatus) ]_vars
    /\ <>(requests = RetryLimit + 1 /\ phase # "awaiting")
    /\ []((requests = RetryLimit + 1 /\ phase # "awaiting" /\ status_code \in RedirectStatuses)
            => (cancelled /\ output_fd = -1 /\ error_ret = ErrStatus))

\* the eleventh response was a redirect with a valid target and ended the session
C2_Witness ==
    /\ requests = RetryLimit + 1
    /\ status_code \in RedirectStatuses /\ redirect_to # NullStr
    /\ redirect_to # location
    /\ cancelled /\ phase = "disconnected"
    /\ error_ret = ErrStatus

(* C3: a final response opens a sink only when its status is 200 or 204;    *)
(* for any other final status the session terminates with exit status 8,    *)
(* no sink is opened, and no byte is written to any sink, then or later.    *)
C3_OtherStatusFails ==
    /\ [][ (Handled("header") /\ ~(RedirectResponse' /\ retries < RetryLimit)) =>
             /\ (status_code' \notin { 200, 204 } =>
                    /\ cancelled' /\ phase' = "disconnected"
                    /\ error_ret' = ErrStatus
                    /\ output_fd' = -1 /\ opens' = opens /\ fdtab' = fdtab
                    /\ exists' = exists /\ out' = out)
             /\ ((output_fd' >= 0 \/ opens' # opens) => status_code' \in { 200, 204 }) ]_vars
    /\ [](status_code \notin { 200, 204 } =>
            (output_fd = -1 /\ opens = 0 /\ NothingWritten))

\* a 201 ended the session; body bytes arrived afterwards and went nowhere
C3_Witness ==
    /\ status_code = 201
    /\ cancelled
    /\ ev.kind = "data" /\ sent > 0
    /\ error_ret = ErrStatus
    /\ output_fd = -1 /\ opens = 0 /\ NothingWritten

(* C4: when the status is 200 or 204 and the sink cannot be opened, the     *)
(* session terminates with exit status 3, keeps no descriptor, and no body  *)
(* byte is written whatever data events follow.                             *)
C4_OpenFailure ==
    /\ [][ (Handled("header") /\ opens' = opens + 1 /\ lastOpen'.ret < 0) =>
             /\ status_code' \in { 200, 204 }
             /\ cancelled' /\ phase' = "disconnected" /\ ends' = ends + 1
             /\ error_ret' = ErrOpen
             /\ output_fd' = -1
             /\ fdtab' = fdtab /\ out' = out ]_vars
    /\ []((opens > 0 /\ lastOpen.ret < 0) => (output_fd = -1 /\ NothingWritten))

\* the open failed, then a data event delivered bytes
C4_Witness ==
    /\ status_code \in { 200, 204 }
    /\ opens = 1 /\ lastOpen.ret < 0
    /\ ev.kind = "data" /\ sent > 0
    /\ cancelled /\ error_ret = ErrOpen
    /\ output_fd = -1 /\ NothingWritten

(* C5: a transport error that is not ignored, in any state, terminates the  *)
(* session with the sink closed, and sets the exit status by kind: 4 for a  *)
(* connection failure, 5 for the two certificate kinds, 1 for any other;    *)
(* main returns the exit status.                                            *)
C5_FatalError ==
    [][ /\ (Handled("error") /\ ~(ev'.code \in CertKinds /\ ~verify)) =>
             /\ cancelled' /\ phase' = "disconnected"
             /\ output_fd' = -1
             /\ (output_fd >= 0 => output_fd \notin DOMAIN fdtab')
             /\ (ev'.code = "CONNECT" => error_ret' = 4)
             /\ (ev'.code \in CertKinds => error_ret' = 5)
             /\ (ev'.code \notin CertKinds \cup { "CONNECT" } => error_ret' = 1)
        /\ (pc = "run" /\ pc' = "exit") => exit_code' = error_ret ]_vars

\* a hostname mismatch while the body was being streamed to a file
C5_Witness ==
    /\ ev = [ kind |-> "error", code |-> "SSL_CN_MISMATCH" ]
    /\ verify
    /\ opens = 1 /\ lastOpen.ret >= 0 /\ lastOpen.ret \notin DOMAIN fdtab
    /\ out[lastOpen.name] # << >>
    /\ pc = "exit" /\ exit_code = 5

(* C6: an error is ignored exactly when it is one of the two certificate    *)
(* kinds and validation was disabled; an ignored error leaves the exit      *)
(* status 0 and the sink, the redirect counter and the loop as they were;   *)
(* the same error with validation enabled aborts with exit status 5.        *)
C6_IgnoredError ==
    [][ Handled("error") =>
          LET ignorable == ev'.code \in CertKinds /\ ~verify
          IN  /\ (ends' = ends) <=> ignorable
              /\ ignorable =>
                    /\ error_ret' = 0
                    /\ output_fd' = output_fd /\ fdtab' = fdtab /\ out' = out
                    /\ retries' = retries /\ requests' = requests
                    /\ cancelled' = cancelled /\ phase' = phase
              /\ (ev'.code \in CertKinds /\ verify) =>
                    (cancelled' /\ ends' = ends + 1 /\ error_ret' = 5) ]_vars

\* an invalid certificate ignored in the middle of a redirect chain
C6_Witness ==
    /\ ev = [ kind |-> "error", code |-> "SSL_INVALID_CERT" ]
    /\ ~verify
    /\ retries > 0 /\ phase = "awaiting"
    /\ ~cancelled /\ ends = 0 /\ error_ret = 0

(* C7 as it holds: with no -O path, the sink for /a/b/report.csv is the     *)
(* file report.csv opened with O_CREAT|O_EXCL; for /a/b/ and for /a/b it is *)
(* the file b; index.html is used when nothing is left of the path, as      *)
(* for /.                                                                   *)
C7_DerivedNames ==
    (ev.kind = "resolve" /\ output_file = NullStr) =>
        /\ lastOpen.creat /\ lastOpen.excl
        /\ (location = Path_report => lastOpen.name = Str_report_csv)
        /\ (location \in { Path_dir, Path_b } => lastOpen.name = Str_b)
        /\ (location = Path_root => lastOpen.name = Str_index_html)

\* /a/b/ was resolved to the new file b
C7_Witness ==
    /\ ev.kind = "resolve" /\ output_file = NullStr
    /\ location = Path_dir
    /\ lastOpen = [ name |-> Str_b, creat |-> TRUE, excl |-> TRUE, ret |-> output_fd ]
    /\ output_fd >= 0 /\ fdtab[output_fd] = Str_b

(* C7 as stated: with no -O path, /a/b/report.csv gives report.csv in       *)
(* exclusive-create mode, and /a/b/ or /a/b give index.html.                *)
C7_AsStated ==
    (ev.kind = "resolve" /\ output_file = NullStr) =>
        /\ lastOpen.creat /\ lastOpen.excl
        /\ (location = Path_report => lastOpen.name = Str_report_csv)
        /\ (location \in { Path_dir, Path_b } => lastOpen.name = Str_index_html)

(* C8: opening an explicit -O path other than "-" is not exclusive and      *)
(* succeeds on a file that already exists; opening a name derived from the  *)
(* URL fails whenever a file of that name exists, also when an earlier call *)
(* in the same process created it.                                          *)
C8_Exclusivity ==
    [][ (pc = "resolve" /\ opens' = opens + 1) =>
          /\ (output_file \notin { NullStr, Str_dash } =>
                /\ lastOpen'.name = output_file /\ ~lastOpen'.excl
                /\ (output_file \in exists /\ output_file \notin unwritable)
                      => (output_fd' >= 0 /\ fdtab'[output_fd'] = output_file))
          /\ (output_file = NullStr =>
                /\ lastOpen'.excl
                /\ lastOpen'.name \in exists => (output_fd' = -1 /\ fdtab' = fdtab)) ]_vars

\* the second call for a derived name found the file the first call created
C8_Witness ==
    /\ output_file = NullStr
    /\ unwritable = {}
    /\ opens = 2
    /\ exists = { lastOpen.name }
    /\ lastOpen.excl /\ lastOpen.ret = -1 /\ output_fd = -1
    /\ Cardinality(DOMAIN fdtab) = 4

(* C9: with -O -, the sink of an accepted response is standard output for   *)
(* every URL; no file is opened or created, and every byte the controller   *)
(* writes goes to standard output.                                          *)
C9_Stdout ==
    /\ [](output_file = Str_dash =>
            (output_fd \in { -1, STDOUT_FILENO } /\ opens = 0
             /\ \A t \in DOMAIN out : t # StdoutT => out[t] = << >>))
    /\ [][ output_file = Str_dash =>
             /\ exists' = exists
             /\ DOMAIN fdtab' \subseteq DOMAIN fdtab
             /\ (Handled("header") /\ status_code' \in { 200, 204 }) =>
                    (output_fd' = STDOUT_FILENO /\ fdtab'[STDOUT_FILENO] = StdoutT)
             /\ (Handled("data") /\ output_fd = STDOUT_FILENO) =>
                    /\ \E n \in 0..(Len(avail) + sent' - sent) :
                          out'[StdoutT] = out[StdoutT] \o
                              SubSeq(avail \o SubSeq(Body, sent + 1, sent'), 1, n)
                    /\ avail' = << >> ]_vars

\* the whole body went to standard output, for a URL with a file name in it
C9_Witness ==
    /\ output_file = Str_dash
    /\ location = Path_report
    /\ output_fd = STDOUT_FILENO
    /\ out[StdoutT] = Body
    /\ opens = 0

(* C10: the quiet flag does not affect the outcome: the session and its     *)
(* twin, which differ only in -q and receive the same events, agree on the  *)
(* exit status, the descriptors opened and closed, the files created and    *)
(* the bytes written; only the diagnostics differ.                          *)
C10_QuietIrrelevant ==
    /\ twin.quiet = ~quiet
    /\ Outcome(twin) = Outcome(State)
    /\ (pc = "exit" => exit_code = twin.error_ret)

\* a quiet session and its talkative twin both failed to open the sink
C10_Witness ==
    /\ quiet /\ ~twin.quiet
    /\ msgs = {} /\ "Cannot open output file" \in twin.msgs
    /\ pc = "exit" /\ exit_code = ErrOpen /\ twin.error_ret = ErrOpen

----------------------------------------------------------------------------
(* A host that cannot be connected to.  main runs on, the library reports   *)
(* the failure through the error callback and uloop_run returns once        *)
(* uloop_end was called, hence the fairness.                                *)

ConnectFailureNext ==
    \/ Start(FALSE)
    \/ Error("CONNECT")
    \/ Exit

SpecConnectFailure ==
    /\ Init /\ [][ConnectFailureNext]_vars
    /\ WF_vars(ConnectFailureNext)

OpenSinks == DOMAIN fdtab \ { 0, 1, 2 }

(* C13: at most one output sink is open at any time; a sink comes into use  *)
(* only in the handler of a header-received event with status 200 or 204,   *)
(* and only when none is in use and none has been closed before; the sink   *)
(* is closed by exactly one close(), in the step that disconnects and stops *)
(* the loop; once the loop is stopped no sink is open and none is leaked.   *)
C13_SinkLifecycle ==
    /\ [](/\ Cardinality(OpenSinks) <= 1
          /\ OpenSinks \subseteq { output_fd }
          /\ (output_fd >= 0 => output_fd \in DOMAIN fdtab)
          /\ closes <= 1 /\ opens <= 1
          /\ (cancelled => output_fd = -1 /\ OpenSinks = {}))
    /\ [][ (output_fd = -1 /\ output_fd' >= 0) =>
             /\ Handled("header") /\ status_code' \in { 200, 204 }
             /\ closes = 0 /\ OpenSinks = {} /\ ~cancelled' ]_vars
    /\ [][ (output_fd >= 0 /\ output_fd' # output_fd) =>
             /\ output_fd' = -1 /\ closes' = closes + 1
             /\ output_fd \notin DOMAIN fdtab'
             /\ ~cancelled /\ cancelled' /\ ends' = ends + 1
             /\ phase' = "disconnected" ]_vars
    /\ [][ closes' # closes => output_fd >= 0 /\ output_fd' = -1 ]_vars
    /\ []((cancelled /\ lastOpen.ret >= 0) => closes = 1)

\* a file was opened for a 200 response and closed when the stream ended
C13_Witness ==
    /\ opens = 1 /\ lastOpen.ret >= 0
    /\ closes = 1 /\ output_fd = -1 /\ OpenSinks = {}
    /\ status_code = 200
    /\ ev.kind = "eof" /\ cancelled /\ ends = 1

(* C14 as stated: the step that disconnects and stops the loop is executed  *)
(* at most once per session, and once the session is terminal no later     *)
(* event disconnects or stops the loop again.                               *)
C14_TerminalOnce ==
    /\ [](ends <= 1)
    /\ [][ cancelled => ends' = ends ]_vars

\* the state the code reaches instead: the loop was stopped by one handler
\* and stopped again by the end-of-stream handler that ran after it
C14_SecondStop ==
    /\ ends = 2 /\ post = 1
    /\ ev.kind = "eof"
    /\ status_code = 204 /\ error_ret = ErrOpen

(* C15 as stated: the exit status starts at 0 and is assigned at most once: *)
(* a handler changes it only from its initial 0, an ignored error leaves    *)
(* it alone, and a value set by a failure path is what main returns.        *)
C15_AssignedOnce ==
    /\ [](pc = "start" => error_ret = 0)
    /\ [][ error_ret' # error_ret => error_ret = 0 ]_vars
    /\ [][ (Handled("error") /\ ev'.code \in CertKinds /\ ~verify)
             => error_ret' = error_ret ]_vars

\* the state the code reaches instead: status 404 had set the exit status to
\* 8, the ignored certificate error that followed set it to 0, main returned 0
C15_Overwritten ==
    /\ status_code = 404 /\ ends = 1
    /\ ev.kind = "error" /\ ev.code \in CertKinds /\ ~verify
    /\ error_ret = 0
    /\ pc = "exit" /\ exit_code = 0

----------------------------------------------------------------------------
(* open_output_file's derived names over all short URL paths *)

\* length of the URL paths tried
MaxPathLen == 4

PathChars == { "/", "a", "?", "#", ";" }

\* every path of up to MaxPathLen characters that starts with a slash
NamePaths ==
    { p \in UNION { [ 1..n -> PathChars ] : n \in 1..MaxPathLen } : p[1] = "/" }

\* one call of open_output_file in a fresh process
Derive(path) ==
    /\ opens = 0
    /\ Resolve(path)

NamesNext == \E path \in NamePaths : Derive(path)

SpecNames == InitOpen /\ [][NamesNext]_vars

SetMin(S) == CHOOSE x \in S : \A y \in S : x <= y
SetMax(S) == CHOOSE x \in S : \A y \in S : x >= y

\* the characters that start a query or a fragment, or separate parameters
QueryFragmentDelims == { "?", "#", ";", "&" }

\* path up to its first character of delims
CutAt(path, delims) ==
    LET hits == { i \in 1..Len(path) : path[i] \in delims }
    IN  IF hits = {} THEN path ELSE SubSeq(path, 1, SetMin(hits) - 1)

\* p without its trailing slashes
NoTrailingSlash(p) ==
    LET keep == { i \in 1..Len(p) : p[i] # "/" }
    IN  IF keep = {} THEN << >> ELSE SubSeq(p, 1, SetMax(keep))

\* what follows the last slash of p
LastSegment(p) ==
    LET slashes == { i \in 1..Len(p) : p[i] = "/" }
    IN  IF slashes = {} THEN p ELSE SubSeq(p, SetMax(slashes) + 1, Len(p))

RemainingSegment(path, delims) == LastSegment(NoTrailingSlash(CutAt(path, delims)))

\* a file name was derived from the URL path in location
NameDerived == ev.kind = "resolve" /\ output_file = NullStr

(* C16 as stated: with no explicit output path the derived file name is the *)
(* last segment of the URL path cut at its first query or fragment          *)
(* delimiter and stripped of trailing slashes, it is index.html exactly     *)
(* when that segment is empty, and it contains no slash and no query or     *)
(* fragment delimiter.                                                      *)
C16_DerivedName ==
    NameDerived =>
        LET seg == RemainingSegment(location, QueryFragmentDelims)
        IN  /\ lastOpen.name = IF seg = << >> THEN Str_index_html ELSE seg
            /\ (lastOpen.name = Str_index_html <=> seg = << >>)
            /\ \A i \in 1..Len(lastOpen.name) :
                   lastOpen.name[i] \notin { "/" } \cup QueryFragmentDelims

\* what the code computes: the same with ';' and '&' as the only delimiters
C16_CutAtSemicolonOrAmpersand ==
    NameDerived =>
        LET seg == RemainingSegment(location, { ";", "&" })
        IN  /\ lastOpen.name = IF seg = << >> THEN Str_index_html ELSE seg
            /\ (lastOpen.name = Str_index_html <=> seg = << >>)
            /\ \A i \in 1..Len(lastOpen.name) :
                   lastOpen.name[i] \notin { "/", ";", "&" }

\* the state the code reaches instead: the query of /a?a is part of the name
C16_QueryKept ==
    /\ NameDerived
    /\ location = << "/", "a", "?", "a" >>
    /\ lastOpen.name = << "a", "?", "a" >>
    /\ lastOpen.excl

\* what the sink in use is open on
SinkTarget == fdtab[output_fd]

(* C17 as stated: a data-available event with an open sink leaves nothing   *)
(* to read in the library, and appends to the sink exactly the bytes it     *)
(* pulled, in their order: none dropped, duplicated or altered.             *)
C17_DrainedAndWritten ==
    [][ (Handled("data") /\ output_fd >= 0) =>
          /\ avail' = << >>
          /\ output_fd' = output_fd
          /\ out'[SinkTarget] =
                out[SinkTarget] \o avail \o SubSeq(Body, sent + 1, sent') ]_vars

\* the state the code reaches instead: the whole body was pulled, the disk
\* took less, and the download ended as a success
C17_BytesDropped ==
    /\ status_code = 200 /\ output_file = NullStr
    /\ sent = BodyLen /\ avail = << >>
    /\ Len(out[Str_index_html]) < BodyLen
    /\ ev.kind = "eof"
    /\ pc = "exit" /\ exit_code = 0

\* what the code does guarantee: the same as long as the device has room
C17_WrittenWhileRoom ==
    [][ (Handled("data") /\ output_fd >= 0
           /\ Len(avail) + (sent' - sent) <= space) =>
          /\ avail' = << >>
          /\ output_fd' = output_fd
          /\ out'[SinkTarget] =
                out[SinkTarget] \o avail \o SubSeq(Body, sent + 1, sent') ]_vars

(* C18: body bytes are pulled from the library and written only while a     *)
(* sink is open, which is only between the acceptance of a 200 or 204       *)
(* response and the terminal transition; a data-available event with no     *)
(* sink open (before a response is accepted, during a redirect hop, after   *)
(* termination) reads nothing and writes nothing.                           *)
C18_OnlyWhileOpen ==
    /\ [](output_fd >= 0 =>
            /\ status_code \in { 200, 204 }
            /\ phase = "body" /\ ~cancelled
            /\ output_fd \in DOMAIN fdtab)
    /\ [][ (Handled("data") /\ output_fd < 0) =>
             /\ avail' = avail \o SubSeq(Body, sent + 1, sent')
             /\ out' = out /\ space' = space
             /\ output_fd' = output_fd ]_vars
    /\ [][ (out' # out \/ Len(avail') < Len(avail)) =>
             /\ Handled("data")
             /\ output_fd >= 0 /\ output_fd' = output_fd ]_vars

\* body bytes of a redirect response arrived during the hop and were left
\* in the library, nothing was written
C18_Witness ==
    /\ ev.kind = "data"
    /\ requests = 2 /\ phase = "awaiting" /\ output_fd = -1
    /\ Len(avail) = BodyLen
    /\ NothingWritten

(* C19 as stated: main returns 0 only for a successful download: a 200 or   *)
(* 204 response was accepted, its sink was opened (and so closed at the     *)
(* end), and the session was ended by end-of-stream with that sink open.    *)
C19_ZeroMeansSuccess ==
    /\ []((pc = "exit" /\ exit_code = 0) =>
            (status_code \in { 200, 204 } /\ closes = 1))
    /\ [][ (~cancelled /\ cancelled' /\ error_ret' = 0) =>
             (Handled("eof") /\ output_fd >= 0 /\ status_code \in { 200, 204 }) ]_vars

\* the state the code reaches instead: the connection ended before any
\* response, nothing was opened or written, and main returned 0
C19_EmptySuccess ==
    /\ ev.kind = "eof" /\ ends = 1
    /\ status_code = 0 /\ requests = 1
    /\ opens = 0 /\ closes = 0 /\ NothingWritten
    /\ pc = "exit" /\ exit_code = 0

(* C20: between event handlers a non-zero exit status implies that the      *)
(* session is terminal: the loop has been told to stop, the client is       *)
(* disconnected and no sink is open; while the session is live the exit     *)
(* status is 0.                                                             *)
C20_NonZeroIsTerminal ==
    /\ [](error_ret # 0 =>
            /\ cancelled /\ ends >= 1
            /\ phase = "disconnected"
            /\ output_fd = -1 /\ OpenSinks = {})
    /\ [](~cancelled => error_ret = 0)

\* a fatal error came while the body was being written: the status is 1,
\* the sink is closed and the loop is stopped, uloop_run has not returned yet
C20_Witness ==
    /\ error_ret = ErrOther
    /\ ev = [ kind |-> "error", code |-> "UNKNOWN" ]
    /\ status_code = 200 /\ closes = 1
    /\ cancelled /\ ends = 1 /\ output_fd = -1
    /\ pc = "run"

====
